---- MODULE Spec2Model ----
(***************************************************************************)
(* cgx::bit field_t / msg_t: bit-packed fields with validation conditions  *)
(* and fixed-layout messages built from them.                              *)
(*                                                                         *)
(* Conventions                                                             *)
(*  - a byte buffer is a sequence of naturals 0..255; byte index k of the  *)
(*    C++ pointer is element k+1 of the sequence;                          *)
(*  - a field declaration (the template arguments of field_t) is a record  *)
(*    [n_bits, t_bits, is_signed, endianess, id]; value types are the 8    *)
(*    and 16 bit integers, so every uint32_t intermediate stays below      *)
(*    2^17 and never wraps;                                                *)
(*  - a field object is [value, valid, cond]; a condition (the             *)
(*    std::function m_condition) is [kind, lo, hi];                        *)
(*  - memcpy between T and uint32_t is the little-endian one.              *)
(***************************************************************************)
EXTENDS Integers, Sequences, FiniteSets, TLC

VARIABLES
    msg,      \* the msg_t object: [decls, fields, valid, m_callback, m_custom_validator]
    call,     \* the last operation on msg: what was passed, returned and logged
    ops,      \* number of operations performed on msg
    fdecl,    \* a stand-alone field_t: its template arguments
    fld,      \* a stand-alone field_t: the object
    fcall,    \* the last operation on fld
    cat       \* the message make_msg_cat was given, and one of the added fields alone

vars == <<msg, call, ops, fdecl, fld, fcall, cat>>

(***************************************************************************)
(* Bounds of the model                                                     *)
(***************************************************************************)
MaxOps == 2
MaxBitOffset == 8

(***************************************************************************)
(* Integer helpers: the C++ operators >>, <<, &, | on unsigned values      *)
(***************************************************************************)
Pow2(n) == 2 ^ n

\* (x >> i) & 1
Bit(x, i) == (x \div Pow2(i)) % 2

RECURSIVE BitOr(_, _)
\* a | b
BitOr(a, b) ==
    IF a = 0 THEN b
    ELSE IF b = 0 THEN a
    ELSE 2 * BitOr(a \div 2, b \div 2) + (IF a % 2 = 1 \/ b % 2 = 1 THEN 1 ELSE 0)

\* bytes[k]
ReadByte(bytes, k) == bytes[k + 1]

\* std::size_t arithmetic is modulo 2^SizeBits; size_t is taken 16 bits wide,
\* the narrowest the language allows: every length and offset used here is
\* far below 2^16, so a wider size_t wraps in the same calls
SizeBits == 16
SizeMod == Pow2(SizeBits)
SizeSub(a, b) == (a - b + SizeMod) % SizeMod

(***************************************************************************)
(* Value types                                                             *)
(***************************************************************************)
\* std::numeric_limits<T>::min()
TMin(d) == IF d.is_signed THEN -Pow2(d.t_bits - 1) ELSE 0

\* std::numeric_limits<T>::max()
TMax(d) == IF d.is_signed THEN Pow2(d.t_bits - 1) - 1 ELSE Pow2(d.t_bits) - 1

\* static_cast<T>(x) / memcpy(&m_value, &raw, sizeof(m_value)): keep the low
\* t_bits bits and read them as a T
CastT(d, x) ==
    LET u == x % Pow2(d.t_bits)
    IN  IF d.is_signed /\ u >= Pow2(d.t_bits - 1) THEN u - Pow2(d.t_bits) ELSE u

\* memcpy(&raw, &m_value, sizeof(m_value)) into a zeroed uint32_t
RawOf(d, v) == IF v < 0 THEN v + Pow2(d.t_bits) ELSE v

(***************************************************************************)
(* Conditions                                                              *)
(***************************************************************************)
Cond(kind, lo, hi) == [kind |-> kind, lo |-> lo, hi |-> hi]

\* the default member initializer of m_condition
DefaultCond == Cond("default", 0, 0)
\* the builders
any == DefaultCond
equal_to(v) == Cond("equal_to", v, v)
equal_to_set(v1, v2) == Cond("equal_to_set", v1, v2)
not_equal_to(v) == Cond("not_equal_to", v, v)
greater_than(v) == Cond("greater_than", v, v)
less_than(v) == Cond("less_than", v, v)
greater_equal_to(v) == Cond("greater_equal_to", v, v)
less_equal_to(v) == Cond("less_equal_to", v, v)
between(min, max) == Cond("between", min, max)
clamp(min, max) == Cond("clamp", min, max)
\* condition(fn) with the caller's predicate "v is even", and an empty
\* std::function
condition_even == Cond("custom_even", 0, 0)
NullCond == Cond("nullptr", 0, 0)

\* the upper bound of the default condition
DefaultMax(d) ==
    CastT(d, IF d.n_bits = 32 THEN TMax(d) ELSE Pow2(d.n_bits) - 1)

\* a force that marks the field valid and leaves the value alone
force_flag_only(f, other) == [f EXCEPT !.valid = TRUE]

\* field_t::force
force(f, other) == [f EXCEPT !.value = other, !.valid = TRUE]

\* m_condition(var, v): the field after the call (a condition may force the
\* value) and the value returned
RunCondition(d, f, v) ==
    LET c == f.cond
        R(g, ok) == [f |-> g, ok |-> ok]
    IN  CASE c.kind = "default" -> R(f, v >= TMin(d) /\ v <= DefaultMax(d))
          [] c.kind = "equal_to" -> R(f, v = c.lo)
          [] c.kind = "equal_to_set" -> R(f, v = c.lo \/ v = c.hi)
          [] c.kind = "not_equal_to" -> R(f, v # c.lo)
          [] c.kind = "greater_than" -> R(f, v > c.lo)
          [] c.kind = "less_than" -> R(f, v < c.lo)
          [] c.kind = "greater_equal_to" -> R(f, v >= c.lo)
          [] c.kind = "less_equal_to" -> R(f, v <= c.lo)
          [] c.kind = "between" -> R(f, v >= c.lo /\ v <= c.hi)
          [] c.kind = "clamp" ->
                IF v < c.lo THEN R(force(f, c.lo), TRUE)
                ELSE IF v > c.hi THEN R(force(f, c.hi), TRUE)
                ELSE R(f, TRUE)
          [] c.kind = "custom_even" -> R(f, v % 2 = 0)

\* field_t::validate
validate(d, f) ==
    IF f.cond.kind = "nullptr" THEN [f EXCEPT !.valid = TRUE]
    ELSE LET r == RunCondition(d, f, f.value)
         IN  [r.f EXCEPT !.valid = r.ok]

(***************************************************************************)
(* field_t                                                                 *)
(***************************************************************************)
\* field_t(condition): what a builder returns; m_value{} and m_valid = false
FieldOf(cond) == [value |-> 0, valid |-> FALSE, cond |-> cond]

\* field_t(const field_t& other): the validity flag is not copied
FieldCopy(other) == [value |-> other.value, valid |-> FALSE, cond |-> other.cond]

\* field_t(const value_type& value): the default condition, m_valid = false
FieldOfValue(v) == [value |-> v, valid |-> FALSE, cond |-> DefaultCond]

\* operator=(const field_t& other)
FieldAssignField(d, f, other) ==
    validate(d, [f EXCEPT !.value = other.value, !.cond = other.cond])

\* operator=(const value_type& other), init(value)
FieldAssign(d, f, v) == validate(d, [f EXCEPT !.value = v])

\* field_t::set_condition
field_set_condition(f, cond) == [f EXCEPT !.cond = cond]

RECURSIVE lsb_loop(_, _, _, _, _)
lsb_loop(bytes, bit_offset, n_bits, i, raw) ==
    IF i >= bit_offset + n_bits THEN raw
    ELSE lsb_loop(bytes, bit_offset, n_bits, i + 1,
                  BitOr(raw, Bit(ReadByte(bytes, i \div 8), i % 8) * Pow2(i - bit_offset)))

lsb_unmarshal(bytes, bit_offset, n_bits) ==
    lsb_loop(bytes, bit_offset, n_bits, bit_offset, 0)

RECURSIVE msb_loop(_, _, _, _, _)
msb_loop(bytes, bit_offset, n_bits, i, raw) ==
    IF i >= bit_offset + n_bits THEN raw
    ELSE msb_loop(bytes, bit_offset, n_bits, i + 1,
                  BitOr(raw * 2, Bit(ReadByte(bytes, i \div 8), 7 - (i % 8))))

msb_unmarshal(bytes, bit_offset, n_bits) ==
    msb_loop(bytes, bit_offset, n_bits, bit_offset, 0)

\* a RawUnmarshal that reads every field LSB-first
RawUnmarshal_lsb_only(d, bytes, bit_offset) ==
    lsb_unmarshal(bytes, bit_offset, d.n_bits)

\* the raw integer field_t::unmarshal extracts
RawUnmarshal(d, bytes, bit_offset) ==
    IF d.endianess = "little" THEN lsb_unmarshal(bytes, bit_offset, d.n_bits)
    ELSE msb_unmarshal(bytes, bit_offset, d.n_bits)

\* field_t::unmarshal: the field afterwards; its return value is the
\* field's valid flag
field_unmarshal(d, f, bytes, bit_offset) ==
    validate(d, [f EXCEPT !.value = CastT(d, RawUnmarshal(d, bytes, bit_offset))])

\* field_t(bytes, bit_offset) : m_value(unmarshal(bytes, bit_offset)).  The
\* members are initialized in declaration order, m_condition and m_valid
\* before m_value, so unmarshal runs on a field with the default condition
\* and its bool result then initializes m_value.  seen is the value validate
\* reads from m_value, which unmarshal wrote before m_value's own
\* initialization.
FieldFromBytes(d, seen) ==
    LET f == validate(d, [FieldOf(DefaultCond) EXCEPT !.value = seen])
    IN  [f EXCEPT !.value = IF f.valid THEN 1 ELSE 0]

\* n_bytes
NBytes(n_bits) == (n_bits + 7) \div 8

\* bytes with bytes[k] |= x
OrByte(bytes, k, x) == [bytes EXCEPT ![k + 1] = BitOr(@, x)]

RECURSIVE marshal_loop(_, _, _, _)
marshal_loop(d, raw, i, bytes) ==
    IF i >= d.n_bits THEN bytes
    ELSE marshal_loop(d, raw, i + 1,
            IF d.endianess = "little"
            THEN OrByte(bytes, i \div 8, Bit(raw, i) * Pow2(i % 8))
            ELSE OrByte(bytes, i \div 8, Bit(raw, d.n_bits - i - 1) * Pow2(i % 8)))

\* field_t::marshal
field_marshal(d, f) ==
    marshal_loop(d, RawOf(d, f.value), 0, [k \in 1..NBytes(d.n_bits) |-> 0])

(***************************************************************************)
(* msg_t                                                                   *)
(***************************************************************************)
\* a call of one of the logger's hooks, of the custom validator or of the
\* callback
Ev(ev, a, b) == [ev |-> ev, a |-> a, b |-> b]

RECURSIVE sum_bits(_)
sum_bits(decls) ==
    IF Len(decls) = 1 THEN decls[1].n_bits
    ELSE decls[1].n_bits + sum_bits(Tail(decls))

\* msg_t::n_fields, n_bits, n_bytes
n_fields(m) == Len(m.decls)
n_bits(m) == sum_bits(m.decls)
n_bytes(m) == (n_bits(m) + 7) \div 8

\* msg_t(callback, fields...): the fields are copy-constructed
MsgOf(decls, callback, fields) ==
    [decls |-> decls,
     fields |-> [i \in 1..Len(fields) |-> FieldCopy(fields[i])],
     valid |-> FALSE,
     m_callback |-> callback,
     m_custom_validator |-> "nullptr"]

\* make_msg / make_msg_with_log
make_msg(decls, cb, fields) == MsgOf(decls, cb, fields)

\* a make_msg_cat that puts the new fields first
make_msg_cat_new_first(cb, other, decls, fields) ==
    MsgOf(decls \o other.decls, cb, fields \o other.fields)

\* make_msg_cat: std::tuple_cat of other's fields and the new ones
make_msg_cat(cb, other, decls, fields) ==
    MsgOf(other.decls \o decls, cb, other.fields \o fields)

\* m_custom_validator(*this) for the validators a caller installs here:
\* one that accepts, one that rejects, and one that compares the first and
\* the last field
RunValidator(m) ==
    CASE m.m_custom_validator = "accept" -> TRUE
      [] m.m_custom_validator = "reject" -> FALSE
      [] m.m_custom_validator = "ordered" ->
            m.fields[1].value <= m.fields[Len(m.fields)].value

RECURSIVE unmarshal_tuple_no_abort(_, _, _, _, _, _)
\* an unmarshal_tuple that decodes the remaining fields after a rejection
unmarshal_tuple_no_abort(I, decls, bytes, bit_offset, args, log) ==
    IF I = Len(args) + 1 THEN [ret |-> TRUE, fields |-> args, log |-> log]
    ELSE LET field == field_unmarshal(decls[I], args[I], bytes, bit_offset)
             rest == unmarshal_tuple_no_abort(
                         I + 1, decls, bytes, bit_offset + decls[I].n_bits,
                         [args EXCEPT ![I] = field],
                         IF field.valid THEN log
                         ELSE Append(log, Ev("on_error_unmarshal", decls[I].id, 0)))
         IN  [rest EXCEPT !.ret = field.valid /\ rest.ret]

RECURSIVE unmarshal_tuple(_, _, _, _, _, _)
\* I counts from 1
unmarshal_tuple(I, decls, bytes, bit_offset, args, log) ==
    IF I = Len(args) + 1 THEN [ret |-> TRUE, fields |-> args, log |-> log]
    ELSE LET field == field_unmarshal(decls[I], args[I], bytes, bit_offset)
             args2 == [args EXCEPT ![I] = field]
         IN  IF ~field.valid
             THEN [ret |-> FALSE, fields |-> args2,
                   log |-> Append(log, Ev("on_error_unmarshal", decls[I].id, 0))]
             ELSE unmarshal_tuple(I + 1, decls, bytes,
                                  bit_offset + decls[I].n_bits, args2, log)

RECURSIVE is_valid_tuple_last(_, _, _)
\* an is_valid_tuple that reports the last invalid field, not the first
is_valid_tuple_last(I, decls, args) ==
    IF I = Len(args) + 1 THEN [ret |-> TRUE, log |-> <<>>]
    ELSE LET rest == is_valid_tuple_last(I + 1, decls, args)
         IN  IF ~rest.ret THEN rest
             ELSE IF ~args[I].valid
                  THEN [ret |-> FALSE,
                        log |-> <<Ev("on_error_condition", decls[I].id, 0)>>]
                  ELSE rest

RECURSIVE is_valid_tuple(_, _, _)
is_valid_tuple(I, decls, args) ==
    IF I = Len(args) + 1 THEN [ret |-> TRUE, log |-> <<>>]
    ELSE IF ~args[I].valid
         THEN [ret |-> FALSE, log |-> <<Ev("on_error_condition", decls[I].id, 0)>>]
         ELSE is_valid_tuple(I + 1, decls, args)

\* an is_valid that does not ask the custom validator
is_valid_fields_only(m) == is_valid_tuple(1, m.decls, m.fields)

\* msg_t::is_valid (and operator bool): the value returned and the hooks
\* called
is_valid(m) ==
    LET t == is_valid_tuple(1, m.decls, m.fields)
    IN  IF m.m_custom_validator # "nullptr"
        THEN IF t.ret
             THEN [ret |-> RunValidator(m),
                   log |-> Append(t.log, Ev("custom_validator", 0, 0))]
             ELSE [ret |-> FALSE, log |-> t.log]
        ELSE t

\* a bit_size_failure that reports (expected, got)
bit_size_failure_swapped(m, got, log) ==
    [m |-> [m EXCEPT !.valid = FALSE], ret |-> FALSE,
     log |-> Append(log, Ev("on_error_bit_size", n_bits(m), got))]

\* on_unmarshal, the branch of a buffer that is too short
bit_size_failure(m, got, log) ==
    [m |-> [m EXCEPT !.valid = FALSE], ret |-> FALSE,
     log |-> Append(log, Ev("on_error_bit_size", got, n_bits(m)))]

\* a finish_unmarshal whose callback does not wait for the validator's verdict
finish_unmarshal_early_callback(m1, log1) ==
    LET runC == m1.valid /\ m1.m_callback
        log2 == IF runC THEN Append(log1, Ev("callback", 0, 0)) ELSE log1
        runV == m1.valid /\ m1.m_custom_validator # "nullptr"
        m2 == IF runV THEN [m1 EXCEPT !.valid = RunValidator(m1)] ELSE m1
        log3 == IF runV THEN Append(log2, Ev("custom_validator", 0, 0)) ELSE log2
    IN  [m |-> m2, ret |-> m2.valid, log |-> log3]

\* on_unmarshal after unmarshal_tuple: the custom validator, then the callback
finish_unmarshal(m1, log1) ==
    LET runV == m1.valid /\ m1.m_custom_validator # "nullptr"
        m2 == IF runV THEN [m1 EXCEPT !.valid = RunValidator(m1)] ELSE m1
        log2 == IF runV THEN Append(log1, Ev("custom_validator", 0, 0)) ELSE log1
        runC == m2.valid /\ m2.m_callback
        log3 == IF runC THEN Append(log2, Ev("callback", 0, 0)) ELSE log2
    IN  [m |-> m2, ret |-> m2.valid, log |-> log3]

\* msg_t::on_unmarshal (msg::unmarshal forwards to it): the message
\* afterwards, the value returned and the calls made, in order
on_unmarshal(m, bytes, len, bit_offset) ==
    LET log0 == <<Ev("on_unmarshal_start", 0, 0)>>
        got == SizeSub((len * 8) % SizeMod, bit_offset)
    IN  IF got < n_bits(m)
        THEN bit_size_failure(m, got, log0)
        ELSE LET u == unmarshal_tuple(1, m.decls, bytes, bit_offset, m.fields, log0)
             IN  finish_unmarshal([m EXCEPT !.fields = u.fields, !.valid = u.ret],
                                  Append(u.log, Ev("on_unmarshal_end", 0, 0)))

RECURSIVE carry_loop_no_carry(_, _, _, _, _, _, _)
\* a carry_loop that shifts each byte into place and drops what overflows
carry_loop_no_carry(data, nb, byte_offset, byte_shift, i, overflow, bytes) ==
    IF i >= nb THEN [bytes |-> bytes, overflow |-> 0]
    ELSE LET byte0 == ReadByte(bytes, byte_offset + i)
             byte2 == BitOr(byte0, data[i + 1] * Pow2(byte_shift)) % Pow2(16)
         IN  carry_loop_no_carry(data, nb, byte_offset, byte_shift, i + 1, 0,
                        [bytes EXCEPT ![byte_offset + i + 1] = byte2 % Pow2(8)])

RECURSIVE carry_loop(_, _, _, _, _, _, _)
\* the for loop of marshal_tuple; byte and overflow are std::uint16_t
carry_loop(data, nb, byte_offset, byte_shift, i, overflow, bytes) ==
    IF i >= nb THEN [bytes |-> bytes, overflow |-> overflow]
    ELSE LET byte0 == ReadByte(bytes, byte_offset + i)
             byte1 == BitOr(byte0, overflow)
             byte2 == BitOr(byte1, data[i + 1] * Pow2(byte_shift)) % Pow2(16)
         IN  carry_loop(data, nb, byte_offset, byte_shift, i + 1, byte2 \div Pow2(8),
                        [bytes EXCEPT ![byte_offset + i + 1] = byte2 % Pow2(8)])

RECURSIVE marshal_tuple(_, _, _, _, _)
\* I counts from 1; bytes.oob records a write past the end of the array
marshal_tuple(I, decls, args, bytes, bit_offset) ==
    IF I = Len(args) + 1 THEN bytes
    ELSE LET byte_offset == bit_offset \div 8
             byte_shift == bit_offset % 8
             data == field_marshal(decls[I], args[I])
             nb == NBytes(decls[I].n_bits)
             r == carry_loop(data, nb, byte_offset, byte_shift, 0, 0, bytes.b)
             past == r.overflow # 0 /\ byte_offset + nb >= Len(bytes.b)
             b2 == IF r.overflow # 0 /\ ~past
                   THEN OrByte(r.bytes, byte_offset + nb, r.overflow)
                   ELSE r.bytes
         IN  marshal_tuple(I + 1, decls, args,
                           [b |-> b2, oob |-> bytes.oob \/ past],
                           bit_offset + decls[I].n_bits)

\* msg_t::marshal
marshal(m) ==
    marshal_tuple(1, m.decls, m.fields,
                  [b |-> [k \in 1..n_bytes(m) |-> 0], oob |-> FALSE], 0)

\* msg_t::set_condition(condition)
set_condition(m, i, cond) ==
    [m EXCEPT !.fields[i] = field_set_condition(@, cond)]

\* msg_t::set_condition(const TField& other)
set_condition_field(m, i, other) ==
    [m EXCEPT !.fields[i] = FieldAssignField(m.decls[i], @, other)]

\* msg_t::set_callback, set_custom_validator
set_callback(m, cb) == [m EXCEPT !.m_callback = cb]
set_custom_validator(m, v) == [m EXCEPT !.m_custom_validator = v]

(***************************************************************************)
(* Declarations, buffers and arguments the operations are exercised with   *)
(***************************************************************************)
Decl(n, t, sgn, e, id) ==
    [n_bits |-> n, t_bits |-> t, is_signed |-> sgn, endianess |-> e, id |-> id]

\* the example's message: field_t<uint16_t, 4> then field_t<uint16_t, 12>
first_f == Decl(4, 16, FALSE, "little", 1)
second_f == Decl(12, 16, FALSE, "little", 2)
ExampleDecls == <<first_f, second_f>>

\* a message whose fields end inside bytes and mix bit orders and types
a_f == Decl(3, 8, FALSE, "big", 3)
b_f == Decl(7, 8, TRUE, "little", 4)
c_f == Decl(9, 16, FALSE, "big", 5)
MixedDecls == <<a_f, b_f, c_f>>

ExampleConds ==
    {<<between(0, 2), any>>, <<clamp(1, 5), less_than(500)>>,
     <<any, equal_to_set(168, 2728)>>}
MixedConds ==
    {<<any, any, any>>, <<clamp(0, 3), less_than(16), less_equal_to(20)>>,
     <<condition_even, between(-3, 10), any>>}

InitMsgs ==
    {make_msg(ExampleDecls, TRUE, [i \in 1..2 |-> FieldOf(cs[i])]) :
        cs \in ExampleConds}
    \cup
    {make_msg(MixedDecls, TRUE, [i \in 1..3 |-> FieldOf(cs[i])]) :
        cs \in MixedConds}
    \cup
    {set_custom_validator(
        make_msg(ExampleDecls, TRUE, <<FieldOf(any), FieldOf(any)>>), "ordered")}

\* memory images: the caller's array is the first len bytes
Bufs ==
    {<<132, 10, 0, 255, 90, 60>>, <<128, 10, 255, 0, 165, 195>>,
     <<10, 0, 255, 135, 169, 15>>}
\* (len, bit_offset): long enough; too short; unaligned; offset past the end
MsgArgs ==
    {[len |-> 3, off |-> 0], [len |-> 1, off |-> 0], [len |-> 3, off |-> 3],
     [len |-> 3, off |-> 25]}
AssignValues == {1, 9}
NewConds == {between(0, 2), NullCond}
OtherFields == {FieldOf(clamp(1, 5)), FieldOf(any)}
Validators == {"nullptr", "accept", "reject", "ordered"}

\* every byte the decode may read is in the memory image
ReadsInMem(bytes, bit_offset, nbits) == bit_offset + nbits <= 8 * Len(bytes)

NoCall ==
    [op |-> "none", ret |-> FALSE, log |-> <<>>, pre |-> <<>>, bytes |-> <<>>,
     len |-> 0, off |-> 0, out |-> <<>>, oob |-> FALSE]

NoFieldCall ==
    [op |-> "none", ret |-> FALSE, pre |-> <<>>, bytes |-> <<>>, off |-> 0,
     out |-> <<>>, v |-> 0]

IdleField == FieldOf(DefaultCond)
IdleCat == <<>>

(***************************************************************************)
(* Operations on the message                                               *)
(***************************************************************************)
Unmarshal ==
    /\ ops < MaxOps
    /\ \E bytes \in Bufs, a \in MsgArgs :
          /\ ReadsInMem(bytes, a.off, n_bits(msg))
          /\ LET r == on_unmarshal(msg, bytes, a.len, a.off)
             IN  /\ msg' = r.m
                 /\ call' = [NoCall EXCEPT !.op = "unmarshal", !.ret = r.ret,
                                !.log = r.log, !.pre = msg, !.bytes = bytes,
                                !.len = a.len, !.off = a.off]
    /\ ops' = ops + 1
    /\ UNCHANGED <<fdecl, fld, fcall, cat>>

IsValid ==
    /\ ops < MaxOps
    /\ LET r == is_valid(msg)
       IN  call' = [NoCall EXCEPT !.op = "is_valid", !.ret = r.ret,
                       !.log = r.log, !.pre = msg]
    /\ ops' = ops + 1
    /\ UNCHANGED <<msg, fdecl, fld, fcall, cat>>

Marshal ==
    /\ ops < MaxOps
    /\ LET r == marshal(msg)
       IN  call' = [NoCall EXCEPT !.op = "marshal", !.out = r.b, !.oob = r.oob,
                       !.pre = msg]
    /\ ops' = ops + 1
    /\ UNCHANGED <<msg, fdecl, fld, fcall, cat>>

\* msg.get<TField>() = v
Assign ==
    /\ ops < MaxOps
    /\ \E i \in 1..n_fields(msg), v \in AssignValues :
          /\ msg' = [msg EXCEPT !.fields[i] = FieldAssign(msg.decls[i], @, v)]
          /\ call' = [NoCall EXCEPT !.op = "assign", !.pre = msg, !.off = i]
    /\ ops' = ops + 1
    /\ UNCHANGED <<fdecl, fld, fcall, cat>>

SetCondition ==
    /\ ops < MaxOps
    /\ \E i \in 1..n_fields(msg), c \in NewConds :
          /\ msg' = set_condition(msg, i, c)
          /\ call' = [NoCall EXCEPT !.op = "set_condition", !.pre = msg, !.off = i]
    /\ ops' = ops + 1
    /\ UNCHANGED <<fdecl, fld, fcall, cat>>

SetConditionField ==
    /\ ops < MaxOps
    /\ \E i \in 1..n_fields(msg), other \in OtherFields :
          /\ msg' = set_condition_field(msg, i, other)
          /\ call' = [NoCall EXCEPT !.op = "set_condition_field", !.pre = msg,
                         !.off = i]
    /\ ops' = ops + 1
    /\ UNCHANGED <<fdecl, fld, fcall, cat>>

SetCallback ==
    /\ ops < MaxOps
    /\ \E cb \in BOOLEAN :
          /\ msg' = set_callback(msg, cb)
          /\ call' = [NoCall EXCEPT !.op = "set_callback", !.pre = msg]
    /\ ops' = ops + 1
    /\ UNCHANGED <<fdecl, fld, fcall, cat>>

SetCustomValidator ==
    /\ ops < MaxOps
    /\ \E v \in Validators :
          /\ msg' = set_custom_validator(msg, v)
          /\ call' = [NoCall EXCEPT !.op = "set_custom_validator", !.pre = msg]
    /\ ops' = ops + 1
    /\ UNCHANGED <<fdecl, fld, fcall, cat>>

Init ==
    /\ msg \in InitMsgs
    /\ call = NoCall
    /\ ops = 0
    /\ fdecl = first_f
    /\ fld = IdleField
    /\ fcall = NoFieldCall
    /\ cat = IdleCat

Next ==
    \/ Unmarshal
    \/ IsValid
    \/ Marshal
    \/ Assign
    \/ SetCondition
    \/ SetConditionField
    \/ SetCallback
    \/ SetCustomValidator

Spec == Init /\ [][Next]_vars

(***************************************************************************)
(* Reference definitions used to state the properties                      *)
(***************************************************************************)
\* the input bit that the wire layout assigns to bit i of a field's raw value
RefBit(d, bytes, off, i) ==
    IF d.endianess = "little"
    THEN Bit(bytes[((off + i) \div 8) + 1], (off + i) % 8)
    ELSE LET j == d.n_bits - 1 - i
         IN  Bit(bytes[((off + j) \div 8) + 1], 7 - ((off + j) % 8))

RECURSIVE RefSum(_, _, _, _)
RefSum(d, bytes, off, i) ==
    IF i = d.n_bits THEN 0
    ELSE RefBit(d, bytes, off, i) * Pow2(i) + RefSum(d, bytes, off, i + 1)

\* the raw integer of the reference rule, and it read as the value type
RefRaw(d, bytes, off) == RefSum(d, bytes, off, 0)
RefValue(d, bytes, off) ==
    LET r == RefRaw(d, bytes, off)
    IN  IF d.is_signed /\ r >= Pow2(d.t_bits - 1) THEN r - Pow2(d.t_bits) ELSE r

\* the sum of the widths of the fields before field j
RunningOffset(decls, j) == IF j = 1 THEN 0 ELSE sum_bits(SubSeq(decls, 1, j - 1))

Count(log, ev) == Cardinality({n \in 1..Len(log) : log[n].ev = ev})
EvAt(log, ev) == CHOOSE n \in 1..Len(log) : log[n].ev = ev

AllFieldsValid(m) == \A i \in 1..Len(m.fields) : m.fields[i].valid

\* the last operation was an unmarshal, and it got past the size check
Unmarshalled == call.op = "unmarshal"
SizeFailed == Unmarshalled /\ Count(call.log, "on_error_bit_size") > 0
Decoded == Unmarshalled /\ ~SizeFailed

\* what field j of the last unmarshal decodes to, by the reference rule
DecodedValue(j) ==
    RefValue(msg.decls[j], call.bytes,
             call.off + RunningOffset(msg.decls, j))

\* field j's condition, as it was before the call, rejects that value
RejectedAt(j) ==
    ~validate(msg.decls[j],
              [call.pre.fields[j] EXCEPT !.value = DecodedValue(j)]).valid

\* the first field rejected in the last unmarshal, 0 if none is
FirstRejected ==
    LET bad == {j \in 1..Len(msg.fields) : RejectedAt(j)}
    IN  IF bad = {} THEN 0 ELSE CHOOSE j \in bad : \A x \in bad : j <= x

\* the value a field with condition c holds after accepting candidate v
Accepted(c, v) ==
    IF c.kind = "clamp"
    THEN IF v < c.lo THEN c.lo ELSE IF v > c.hi THEN c.hi ELSE v
    ELSE v

(***************************************************************************)
(* C1: after every unmarshal, is_valid() equals the value unmarshal        *)
(* returned.                                                               *)
(***************************************************************************)
C1_IsValidIsReturn == Unmarshalled => is_valid(msg).ret = call.ret

(***************************************************************************)
(* C2: an unmarshal with len*8 - bit_offset < n_bits returns false,        *)
(* changes no field, calls on_error_bit_size once with                     *)
(* (len*8 - bit_offset, n_bits), and calls no field-error hook, no         *)
(* validator and no callback.                                              *)
(***************************************************************************)
C2_TooShort ==
    LET got == (call.len * 8 - call.off) % SizeMod
    IN  (Unmarshalled /\ got < n_bits(call.pre)) =>
            /\ call.ret = FALSE
            /\ msg.fields = call.pre.fields
            /\ Count(call.log, "on_error_bit_size") = 1
            /\ call.log[EvAt(call.log, "on_error_bit_size")]
                  = Ev("on_error_bit_size", got, n_bits(call.pre))
            /\ Count(call.log, "on_error_unmarshal") = 0
            /\ Count(call.log, "on_error_condition") = 0
            /\ Count(call.log, "custom_validator") = 0
            /\ Count(call.log, "callback") = 0

C2_Witness ==
    /\ Unmarshalled
    /\ (call.len * 8 - call.off) % SizeMod < n_bits(call.pre)
    /\ \E i \in 1..Len(msg.fields) : call.pre.fields[i].valid

(***************************************************************************)
(* C3: when field k is the first field rejected, unmarshal returns false,  *)
(* the fields before k hold the values decoded from the buffer and are     *)
(* valid, field k holds its decoded value and is invalid, and the fields   *)
(* after k are as they were before the call.                               *)
(***************************************************************************)
C3_Frame(clamped) ==
    LET k == FirstRejected
        before(j) ==
            IF clamped THEN Accepted(call.pre.fields[j].cond, DecodedValue(j))
            ELSE DecodedValue(j)
    IN  (Decoded /\ k # 0) =>
            /\ call.ret = FALSE
            /\ \A j \in 1..(k - 1) :
                  /\ msg.fields[j].value = before(j)
                  /\ msg.fields[j].valid
            /\ msg.fields[k].value = DecodedValue(k)
            /\ ~msg.fields[k].valid
            /\ \A j \in (k + 1)..Len(msg.fields) :
                  msg.fields[j] = call.pre.fields[j]

\* as claimed: the fields before k hold the decoded values
C3_PartialDecode == C3_Frame(FALSE)

\* amended: a clamp field before k holds the decoded value clamped
C3_PartialDecodeClamped == C3_Frame(TRUE)

C3_Witness ==
    /\ Decoded
    /\ FirstRejected = 2
    /\ Len(msg.fields) = 3
    /\ msg.fields[1].value # DecodedValue(1)
    /\ msg.fields[3].value # 0
    /\ msg.fields[3].value # DecodedValue(3)

(***************************************************************************)
(* C4: in one unmarshal the validator runs at most once and only after     *)
(* every field decoded validly; the callback runs exactly once iff the     *)
(* call returns true, after the validator accepted, as the last action.    *)
(***************************************************************************)
C4_ValidatorThenCallback ==
    Unmarshalled =>
        LET log == call.log
            nv == Count(log, "custom_validator")
            nc == Count(log, "callback")
        IN  /\ nv <= 1
            /\ nv = 1 =>
                  /\ call.pre.m_custom_validator # "nullptr"
                  /\ FirstRejected = 0
                  /\ AllFieldsValid(msg)
                  /\ Count(log, "on_error_bit_size") = 0
                  /\ Count(log, "on_error_unmarshal") = 0
                  /\ EvAt(log, "on_unmarshal_end") < EvAt(log, "custom_validator")
            /\ nc <= 1
            /\ call.pre.m_callback => (nc = 1 <=> call.ret)
            /\ ~call.ret => nc = 0
            /\ nc = 1 =>
                  /\ log[Len(log)].ev = "callback"
                  /\ call.pre.m_custom_validator # "nullptr" =>
                        /\ nv = 1
                        /\ RunValidator(msg)

C4_Witness ==
    /\ Unmarshalled
    /\ call.ret
    /\ Count(call.log, "custom_validator") = 1
    /\ Count(call.log, "callback") = 1

(***************************************************************************)
(* C5: when field k fails its condition during unmarshal, is_valid() is    *)
(* false, the logger is told of field k, and on_error_bit_size is not      *)
(* called in that call.                                                    *)
(***************************************************************************)
C5_Report(hook) ==
    LET k == FirstRejected
    IN  (Decoded /\ k # 0) =>
            /\ ~is_valid(msg).ret
            /\ Count(call.log, hook) = 1
            /\ call.log[EvAt(call.log, hook)] = Ev(hook, msg.decls[k].id, 0)
            /\ Count(call.log, "on_error_bit_size") = 0

\* as claimed: unmarshal calls on_error_condition
C5_ConditionHookInUnmarshal == C5_Report("on_error_condition")

\* amended: unmarshal calls on_error_unmarshal; on_error_condition is what
\* the next is_valid() calls, with the same identifier
C5_UnmarshalHook ==
    LET k == FirstRejected
    IN  /\ C5_Report("on_error_unmarshal")
        /\ (Decoded /\ k # 0) =>
              /\ Count(call.log, "on_error_condition") = 0
              /\ is_valid(msg).log = <<Ev("on_error_condition", msg.decls[k].id, 0)>>

C5_Witness ==
    /\ Decoded
    /\ FirstRejected = 2
    /\ call.pre.fields[2].valid

(***************************************************************************)
(* C6: is_valid() is true iff every field is valid and the custom          *)
(* validator is absent or accepts; calling it changes nothing.             *)
(***************************************************************************)
C6_IsValidIsConjunction ==
    LET expected ==
            /\ AllFieldsValid(msg)
            /\ (msg.m_custom_validator = "nullptr" \/ RunValidator(msg))
    IN  /\ is_valid(msg).ret = expected
        /\ call.op = "is_valid" => (call.ret = expected /\ msg = call.pre)

C6_Witness ==
    /\ call.op = "is_valid"
    /\ AllFieldsValid(msg)
    /\ msg.m_custom_validator = "ordered"
    /\ ~call.ret

(***************************************************************************)
(* C10: msg_t::marshal returns ceil(n_bits/8) bytes; bit off_j + i of the  *)
(* buffer is bit i of field j's own marshal(), wherever the field's span   *)
(* lies; every bit from n_bits on is zero.                                 *)
(***************************************************************************)
BufBit(bytes, n) == Bit(bytes[(n \div 8) + 1], n % 8)

C10_MarshalPlacement ==
    call.op = "marshal" =>
        /\ Len(call.out) = (n_bits(msg) + 7) \div 8
        /\ ~call.oob
        /\ \A j \in 1..Len(msg.fields) :
              LET own == field_marshal(msg.decls[j], msg.fields[j])
                  off == RunningOffset(msg.decls, j)
              IN  \A i \in 0..(msg.decls[j].n_bits - 1) :
                      BufBit(call.out, off + i) = BufBit(own, i)
        /\ \A n \in n_bits(msg)..(8 * Len(call.out) - 1) : BufBit(call.out, n) = 0

\* the second field (7 bits from bit 3) spills into the next byte, the third
\* (9 bits from bit 10) spans three bytes
C10_Witness ==
    /\ call.op = "marshal"
    /\ Len(msg.fields) = 3
    /\ msg.fields[1].value # 0
    /\ msg.fields[2].value >= 32
    /\ msg.fields[3].value % 2 = 1
    /\ msg.fields[3].value >= 128

(***************************************************************************)
(* A field_t on its own                                                    *)
(***************************************************************************)
FieldDecls ==
    {Decl(n, 8, sgn, e, 0) : n \in {1, 3, 7, 8}, sgn \in BOOLEAN, e \in {"little", "big"}}
    \cup
    {Decl(n, 16, sgn, e, 0) : n \in {4, 9, 12, 16}, sgn \in BOOLEAN, e \in {"little", "big"}}

FieldConds == {any, between(0, 100), clamp(1, 5)}

FieldBufs == {<<132, 10, 0, 255>>, <<255, 128, 10, 165>>, <<1, 0, 129, 90>>}

\* values of the value type T to assign
FieldValues(d) == {v \in {-128, -1, 0, 1, 5, 6, 77, 127, 255, 4095, 65535} :
                      v >= TMin(d) /\ v <= TMax(d)}

FUnmarshal ==
    /\ \E bytes \in FieldBufs, off \in 0..MaxBitOffset :
          /\ ReadsInMem(bytes, off, fdecl.n_bits)
          /\ fld' = field_unmarshal(fdecl, fld, bytes, off)
          /\ fcall' = [NoFieldCall EXCEPT !.op = "unmarshal", !.ret = fld'.valid,
                          !.bytes = bytes, !.off = off]
    /\ UNCHANGED <<msg, call, ops, fdecl, cat>>

\* fld = v
FAssign ==
    /\ \E v \in FieldValues(fdecl) :
          /\ fld' = FieldAssign(fdecl, fld, v)
          /\ fcall' = [NoFieldCall EXCEPT !.op = "assign", !.ret = fld'.valid, !.v = v]
    /\ UNCHANGED <<msg, call, ops, fdecl, cat>>

FMarshal ==
    /\ fcall' = [NoFieldCall EXCEPT !.op = "marshal", !.out = field_marshal(fdecl, fld)]
    /\ UNCHANGED <<msg, call, ops, fdecl, fld, cat>>

\* fresh.unmarshal(fld.marshal().data()) for a fresh field of fld's declaration
FRoundTrip ==
    /\ LET out == field_marshal(fdecl, fld)
       IN  /\ fld' = field_unmarshal(fdecl, FieldOf(fld.cond), out, 0)
           /\ fcall' = [NoFieldCall EXCEPT !.op = "roundtrip", !.ret = fld'.valid,
                           !.pre = fld, !.out = out]
    /\ UNCHANGED <<msg, call, ops, fdecl, cat>>

IdleMsg == make_msg(ExampleDecls, TRUE, <<FieldOf(any), FieldOf(any)>>)

InitField ==
    /\ fdecl \in FieldDecls
    /\ fld \in {FieldOf(c) : c \in FieldConds}
    /\ fcall = NoFieldCall
    /\ msg = IdleMsg
    /\ call = NoCall
    /\ ops = 0
    /\ cat = IdleCat

NextField ==
    \/ FUnmarshal
    \/ FAssign
    \/ FMarshal
    \/ FRoundTrip

SpecField == InitField /\ [][NextField]_vars

(***************************************************************************)
(* C7: marshal then unmarshal into a fresh field of the same declaration   *)
(* gives back a value that satisfies the condition, in either bit order;   *)
(* marshal returns ceil(n_bits/8) bytes with the bits above the field's    *)
(* span zero.                                                              *)
(***************************************************************************)
C7_RoundTrip ==
    /\ (fcall.op = "roundtrip" /\ fcall.pre.valid) =>
          fld.value = fcall.pre.value
    /\ fcall.op \in {"roundtrip", "marshal"} =>
          /\ Len(fcall.out) = (fdecl.n_bits + 7) \div 8
          /\ \A n \in fdecl.n_bits..(8 * Len(fcall.out) - 1) : BufBit(fcall.out, n) = 0

\* C7 for the big (MSB-first) bit order and the values that fit n_bits
C7_RoundTripMsb ==
    (/\ fcall.op = "roundtrip"
     /\ fcall.pre.valid
     /\ fdecl.endianess = "big"
     /\ fcall.pre.value >= 0
     /\ fcall.pre.value < Pow2(fdecl.n_bits)) =>
        fld.value = fcall.pre.value

(***************************************************************************)
(* C8: field_t::unmarshal stores the raw integer of the reference rule     *)
(* (LSB-first: raw bit i is bit (bit_offset+i) mod 8 of byte               *)
(* (bit_offset+i) div 8; MSB-first: the same bits at position 7 - ...,     *)
(* first bit read most significant), with no bit set from n_bits on, and   *)
(* returns the validity of that value.                                     *)
(***************************************************************************)
C8_Stores(clamped) ==
    fcall.op = "unmarshal" =>
        LET ref == RefValue(fdecl, fcall.bytes, fcall.off)
            stored(c, v) == IF clamped THEN Accepted(c, v) ELSE v
        IN  /\ RefRaw(fdecl, fcall.bytes, fcall.off) < Pow2(fdecl.n_bits)
            /\ fld.value = stored(fld.cond, ref)
            /\ fcall.ret = fld.valid
            /\ fld.valid = validate(fdecl, [fld EXCEPT !.value = ref]).valid

\* as claimed: the stored value is the raw integer
C8_StoresRaw == C8_Stores(FALSE)

\* amended: a clamp field stores the raw integer brought into [min, max]
C8_StoresRawOrClamped == C8_Stores(TRUE)

\* a 9 bit MSB-first field read from bit 7 on, across three bytes, into a
\* clamp field
C8_Witness ==
    /\ fcall.op = "unmarshal"
    /\ fdecl.endianess = "big"
    /\ fdecl.n_bits = 9
    /\ fcall.off = 7
    /\ RefValue(fdecl, fcall.bytes, fcall.off) > 255
    /\ fld.cond.kind = "clamp"
    /\ fld.value = 5

(***************************************************************************)
(* make_msg_cat: message C made of message A's fields and the fields D,    *)
(* beside A itself and a message of the fields D alone                     *)
(***************************************************************************)
CatD == <<a_f, c_f>>
CatAConds == {<<between(0, 2), any>>, <<clamp(1, 5), any>>}
CatDConds == {<<any, any>>, <<any, less_equal_to(20)>>}
\* (len, bit_offset) for the 28 bits of C
CatArgs ==
    {[len |-> 4, off |-> 0], [len |-> 4, off |-> 3], [len |-> 5, off |-> 9],
     [len |-> 3, off |-> 0]}

CatUnmarshal ==
    /\ ops < MaxOps
    /\ \E bytes \in Bufs, a \in CatArgs :
          /\ ReadsInMem(bytes, a.off, n_bits(msg))
          /\ LET r == on_unmarshal(msg, bytes, a.len, a.off)
             IN  /\ msg' = r.m
                 /\ call' = [NoCall EXCEPT !.op = "unmarshal", !.ret = r.ret,
                                !.log = r.log, !.pre = msg, !.bytes = bytes,
                                !.len = a.len, !.off = a.off]
          /\ cat' = [a |-> on_unmarshal(cat.a, bytes, a.len, a.off).m,
                     d |-> on_unmarshal(cat.d, bytes, a.len,
                                        a.off + n_bits(cat.a)).m]
    /\ ops' = ops + 1
    /\ UNCHANGED <<fdecl, fld, fcall>>

InitCat ==
    /\ \E ca \in CatAConds, cd \in CatDConds :
          LET A == make_msg(ExampleDecls, TRUE, [i \in 1..2 |-> FieldOf(ca[i])])
              D == [i \in 1..2 |-> FieldOf(cd[i])]
          IN  /\ msg = make_msg_cat(TRUE, A, CatD, D)
              /\ cat = [a |-> A, d |-> make_msg(CatD, TRUE, D)]
    /\ call = NoCall
    /\ ops = 0
    /\ fdecl = first_f
    /\ fld = IdleField
    /\ fcall = NoFieldCall

NextCat == CatUnmarshal

SpecCat == InitCat /\ [][NextCat]_vars

(***************************************************************************)
(* C9: C has A.n_fields + count(D) fields, and C.unmarshal leaves each     *)
(* field with the value obtained by decoding A's fields from bit_offset    *)
(* and D's fields from bit_offset + A.n_bits, each field at the running    *)
(* sum of the widths before it.                                            *)
(***************************************************************************)
C9_Cat(all) ==
    LET nA == Len(cat.a.fields)
        nD == Len(cat.d.fields)
        covered(j) == all \/ FirstRejected = 0 \/ j <= FirstRejected
    IN  /\ n_fields(msg) = n_fields(cat.a) + nD
        /\ Decoded =>
              /\ \A j \in 1..nA :
                    covered(j) => msg.fields[j].value = cat.a.fields[j].value
              /\ \A j \in 1..nD :
                    covered(nA + j) =>
                        msg.fields[nA + j].value = cat.d.fields[j].value
              /\ \A j \in 1..Len(msg.fields) :
                    covered(j) =>
                        msg.fields[j].value
                            = Accepted(msg.fields[j].cond, DecodedValue(j))

\* as claimed: every field of C
C9_CatDecodesAll == C9_Cat(TRUE)

\* amended: the fields up to the first rejected one; the others keep their
\* values
C9_CatDecodesUpToRejected ==
    /\ C9_Cat(FALSE)
    /\ (Decoded /\ FirstRejected # 0) =>
          \A j \in (FirstRejected + 1)..Len(msg.fields) :
              msg.fields[j] = call.pre.fields[j]

\* an unaligned decode of all four fields, the first one clamped
C9_Witness ==
    /\ Decoded
    /\ call.off # 0
    /\ FirstRejected = 0
    /\ msg.fields[1].cond.kind = "clamp"
    /\ msg.fields[1].value # DecodedValue(1)
    /\ msg.fields[3].value # 0
    /\ msg.fields[4].value # 0

(***************************************************************************)
(* C11: a field with no explicit condition is valid after a value v is     *)
(* assigned or decoded iff type-min <= v <= U, where U is the type's       *)
(* maximum when n_bits is the type's full width and 2^n_bits - 1           *)
(* otherwise.                                                              *)
(***************************************************************************)
C11_DefaultRange ==
    (fcall.op \in {"assign", "unmarshal"} /\ fld.cond = DefaultCond) =>
        LET U == IF fdecl.n_bits = fdecl.t_bits THEN TMax(fdecl)
                 ELSE Pow2(fdecl.n_bits) - 1
        IN  fld.valid <=> (TMin(fdecl) <= fld.value /\ fld.value <= U)

(***************************************************************************)
(* C12: a field made by any() is valid after every unmarshal and every     *)
(* value assignment, whatever the value and the width.                     *)
(***************************************************************************)
C12_AnyAccepts ==
    (fcall.op \in {"assign", "unmarshal"} /\ fld.cond = any) => fld.valid

\* C12 for the values a decode in range produces: those that fit n_bits
C12_AnyAcceptsDecoded ==
    (/\ fcall.op = "unmarshal"
     /\ fld.cond = any
     /\ fld.value >= 0
     /\ fld.value < Pow2(fdecl.n_bits)) => fld.valid

(***************************************************************************)
(* The life of a field_t: construction, copy, assignment, init, unmarshal, *)
(* force and set_condition.  fcall.pre records what the validity flag      *)
(* rests on: nothing, the condition's verdict on a value, a force of a     *)
(* value, or the absence of a condition; fcall.v is the candidate value    *)
(* of the last assignment or decode.                                       *)
(***************************************************************************)
LifeDecls ==
    {Decl(3, 8, FALSE, "little", 0), Decl(8, 8, TRUE, "big", 0),
     Decl(9, 16, TRUE, "little", 0)}

LifeConds ==
    {any, equal_to(5), equal_to_set(1, 77), not_equal_to(0), greater_than(5),
     less_than(6), greater_equal_to(1), less_equal_to(77), between(0, 100),
     clamp(1, 5), clamp(5, 5)}

LifeValues == {-1, 0, 5, 77}
LifeBufs == {<<132, 10, 0, 255>>, <<1, 0, 129, 90>>}
LifeOffsets == {0, 3, MaxBitOffset}

Why(by, v, ok) == [by |-> by, v |-> v, ok |-> ok]

\* what validate() on field f (its value already set) rests the flag on
WhyValidate(d, f) ==
    IF f.cond.kind = "nullptr" THEN Why("no_condition", f.value, TRUE)
    ELSE LET r == RunCondition(d, f, f.value)
         IN  IF r.f.value # f.value THEN Why("force", r.f.value, TRUE)
             ELSE Why("condition", f.value, r.ok)

LifeCall(op, f, v, why) ==
    [NoFieldCall EXCEPT !.op = op, !.ret = f.valid, !.v = v, !.pre = why]

\* field_t f;
LifeConstruct ==
    /\ fld' = FieldOf(DefaultCond)
    /\ fcall' = LifeCall("construct", fld', 0, Why("none", 0, FALSE))
    /\ UNCHANGED <<msg, call, ops, fdecl, cat>>

\* field_t f(v);
LifeConstructValue ==
    /\ \E v \in LifeValues :
          /\ v >= TMin(fdecl)
          /\ fld' = FieldOfValue(v)
          /\ fcall' = LifeCall("construct_value", fld', v, Why("none", 0, FALSE))
    /\ UNCHANGED <<msg, call, ops, fdecl, cat>>

\* field_t g(f); the life goes on with the copy
LifeCopy ==
    /\ fld' = FieldCopy(fld)
    /\ fcall' = LifeCall("construct_copy", fld', 0, Why("none", 0, FALSE))
    /\ UNCHANGED <<msg, call, ops, fdecl, cat>>

\* field_t f(bytes, bit_offset); validate reads the decoded value or, m_value
\* not being initialized yet, any value of the type
LifeFromBytes ==
    /\ \E bytes \in LifeBufs, off \in LifeOffsets :
          /\ ReadsInMem(bytes, off, fdecl.n_bits)
          /\ \E seen \in {CastT(fdecl, RawUnmarshal(fdecl, bytes, off))}
                          \cup {v \in LifeValues : v >= TMin(fdecl)} :
                /\ fld' = FieldFromBytes(fdecl, seen)
                /\ fcall' = LifeCall("construct_bytes", fld', seen,
                                     Why("condition_in_constructor", seen, fld'.valid))
    /\ UNCHANGED <<msg, call, ops, fdecl, cat>>

\* auto f = field_t::between(...), clamp(...), ...
LifeBuilder ==
    /\ \E c \in LifeConds :
          /\ fld' = FieldOf(c)
          /\ fcall' = LifeCall("builder", fld', 0, Why("none", 0, FALSE))
    /\ UNCHANGED <<msg, call, ops, fdecl, cat>>

\* f = v;
LifeAssign ==
    /\ \E v \in LifeValues :
          /\ v >= TMin(fdecl)
          /\ fld' = FieldAssign(fdecl, fld, v)
          /\ fcall' = LifeCall("assign", fld', v,
                               WhyValidate(fdecl, [fld EXCEPT !.value = v]))
    /\ UNCHANGED <<msg, call, ops, fdecl, cat>>

\* f.init(v);
LifeInit ==
    /\ \E v \in LifeValues :
          /\ v >= TMin(fdecl)
          /\ fld' = FieldAssign(fdecl, fld, v)
          /\ fcall' = LifeCall("init", fld', v,
                               WhyValidate(fdecl, [fld EXCEPT !.value = v]))
    /\ UNCHANGED <<msg, call, ops, fdecl, cat>>

\* f.unmarshal(bytes, bit_offset);
LifeUnmarshal ==
    /\ \E bytes \in LifeBufs, off \in LifeOffsets :
          /\ ReadsInMem(bytes, off, fdecl.n_bits)
          /\ LET v == CastT(fdecl, RawUnmarshal(fdecl, bytes, off))
             IN  /\ fld' = field_unmarshal(fdecl, fld, bytes, off)
                 /\ fcall' = LifeCall("unmarshal", fld', v,
                                      WhyValidate(fdecl, [fld EXCEPT !.value = v]))
    /\ UNCHANGED <<msg, call, ops, fdecl, cat>>

\* f.force(v);
LifeForce ==
    /\ \E v \in LifeValues :
          /\ v >= TMin(fdecl)
          /\ fld' = force(fld, v)
          /\ fcall' = LifeCall("force", fld', v, Why("force", v, TRUE))
    /\ UNCHANGED <<msg, call, ops, fdecl, cat>>

\* f.set_condition(c); nothing is evaluated
LifeSetCondition ==
    /\ \E c \in LifeConds \cup {NullCond} :
          /\ fld' = field_set_condition(fld, c)
          /\ fcall' = [fcall EXCEPT !.op = "set_condition"]
    /\ UNCHANGED <<msg, call, ops, fdecl, cat>>

\* f = other; for a field other made by a builder
LifeCopyAssign ==
    /\ \E c \in LifeConds :
          LET other == FieldOf(c)
          IN  /\ fld' = FieldAssignField(fdecl, fld, other)
              /\ fcall' = LifeCall("copy_assign", fld', other.value,
                                   WhyValidate(fdecl, [fld EXCEPT !.value = other.value,
                                                                  !.cond = other.cond]))
    /\ UNCHANGED <<msg, call, ops, fdecl, cat>>

InitLife ==
    /\ fdecl \in LifeDecls
    /\ fld = FieldOf(DefaultCond)
    /\ fcall = LifeCall("construct", fld, 0, Why("none", 0, FALSE))
    /\ msg = IdleMsg
    /\ call = NoCall
    /\ ops = 0
    /\ cat = IdleCat

NextLife ==
    \/ LifeConstruct
    \/ LifeConstructValue
    \/ LifeCopy
    \/ LifeFromBytes
    \/ LifeBuilder
    \/ LifeAssign
    \/ LifeInit
    \/ LifeUnmarshal
    \/ LifeForce
    \/ LifeSetCondition
    \/ LifeCopyAssign

SpecLife == InitLife /\ [][NextLife]_vars

(***************************************************************************)
(* C13: a clamp(min, max) field, min <= max, is valid after every decode   *)
(* or assignment of a candidate v and holds min if v < min, max if         *)
(* v > max, v otherwise; with any other builder's condition the field      *)
(* holds the candidate and the condition only accepts or rejects it.       *)
(***************************************************************************)
C13_ClampRepairs ==
    fcall.op \in {"assign", "init", "unmarshal"} =>
        LET c == fld.cond
            v == fcall.v
        IN  /\ c.kind = "clamp" =>
                  /\ fld.valid
                  /\ fcall.ret
                  /\ fld.value = IF v < c.lo THEN c.lo
                                 ELSE IF v > c.hi THEN c.hi ELSE v
            /\ c.kind \in {"equal_to", "equal_to_set", "not_equal_to",
                             "greater_than", "less_than", "greater_equal_to",
                             "less_equal_to", "between"} =>
                  /\ fld.value = v
                  /\ fcall.ret = fld.valid
                  /\ fld.valid =
                        CASE c.kind = "equal_to" -> v = c.lo
                          [] c.kind = "equal_to_set" -> v \in {c.lo, c.hi}
                          [] c.kind = "not_equal_to" -> v # c.lo
                          [] c.kind = "greater_than" -> v > c.lo
                          [] c.kind = "less_than" -> v < c.lo
                          [] c.kind = "greater_equal_to" -> v >= c.lo
                          [] c.kind = "less_equal_to" -> v <= c.lo
                          [] c.kind = "between" -> c.lo <= v /\ v <= c.hi

\* a clamp(1, 5) field decodes a value above 5 and holds 5
C13_Witness ==
    /\ fcall.op = "unmarshal"
    /\ fld.cond = clamp(1, 5)
    /\ fcall.v > 5
    /\ fld.value = 5
    /\ fld.valid

\* a clamp(1, 5) field is assigned a value below 1 and holds 1
C13_WitnessBelow ==
    /\ fcall.op = "assign"
    /\ fld.cond = clamp(1, 5)
    /\ fcall.v < 1
    /\ fld.value = 1

(***************************************************************************)
(* C14: the validity flag is true only if the most recent evaluation of    *)
(* the condition approved the value the field now holds, or that value     *)
(* was set by force; a default-, value- or copy-constructed field has      *)
(* valid = false.                                                          *)
(***************************************************************************)
C14_Fresh ==
    fcall.op \in {"construct", "construct_value", "construct_copy"} => ~fld.valid

C14_Justified(bys) ==
    fld.valid =>
        /\ fcall.pre.by \in bys
        /\ fcall.pre.ok
        /\ fcall.pre.v = fld.value

C14_FlagJustified ==
    /\ C14_Justified({"condition", "condition_in_constructor", "force"})
    /\ C14_Fresh

\* C14 for the fields whose flag was not set by the constructor from bytes
\* nor by validate() on an empty std::function
C14_FlagJustifiedElsewhere ==
    fcall.pre.by \notin {"condition_in_constructor", "no_condition"} =>
        C14_Justified({"condition", "force"})

(***************************************************************************)
(* C15: unmarshal rejects every call in which fewer than n_bits bits lie   *)
(* between bit_offset and the end of the buffer, bit_offset beyond the     *)
(* end included: it returns false and decodes no field.                    *)
(***************************************************************************)
C15_RejectsShort ==
    (Unmarshalled /\ call.len * 8 - call.off < n_bits(call.pre)) =>
        /\ call.ret = FALSE
        /\ msg.fields = call.pre.fields
        /\ Count(call.log, "on_unmarshal_end") = 0

\* C15 for the calls whose bit_offset lies inside the buffer
C15_RejectsShortInside ==
    (/\ Unmarshalled
     /\ call.off <= call.len * 8
     /\ call.len * 8 - call.off < n_bits(call.pre)) =>
        /\ call.ret = FALSE
        /\ msg.fields = call.pre.fields
        /\ Count(call.log, "on_unmarshal_end") = 0

(***************************************************************************)
(* C16: set_condition<Field>, with a predicate or with another field       *)
(* instance, leaves the stored value of the named field and the value,     *)
(* condition and validity flag of every other field as they were.          *)
(***************************************************************************)
C16_Frame(ops_) ==
    call.op \in ops_ =>
        /\ msg.fields[call.off].value = call.pre.fields[call.off].value
        /\ \A j \in 1..Len(msg.fields) :
              j # call.off => msg.fields[j] = call.pre.fields[j]

C16_SetConditionFrame == C16_Frame({"set_condition", "set_condition_field"})

\* C16 for the predicate overload
C16_PredicateFrame == C16_Frame({"set_condition"})

\* C16 for the other fields, in both overloads
C16_OtherFieldsFrame ==
    call.op \in {"set_condition", "set_condition_field"} =>
        \A j \in 1..Len(msg.fields) :
            j # call.off => msg.fields[j] = call.pre.fields[j]
====
